---- MODULE Spec2Model ----
(***************************************************************************)
(* Model of the form-state container of src/src/index.ts: the classes Form *)
(* and FormCollection, their field store, the validate / clear / reset     *)
(* lifecycle and the parent/child composition.                             *)
(*                                                                         *)
(* Objects live in a heap indexed by Nodes; an object is never freed (a    *)
(* form removed from a collection is still referenced by its parent and by *)
(* the caller).  Every public method is one action; the methods it calls   *)
(* (the recursion into the children, the callbacks) are part of it.        *)
(***************************************************************************)
EXTENDS Integers, Sequences, FiniteSets, TLC

\* ---------------------------------------------------------------- bounds
\* Number of objects (forms and collections) the heap holds.
MaxNodes == 7
\* Number of public calls the caller makes on an initial tree in one run.
MaxCalls == 2
\* Number of calls of a run of the single-field scenario.
ScenarioCalls == 3
\* Number of calls of a run that replaces the members of a collection.
ReplaceCalls == 2
\* Number of value sets a bulk assignment to a collection supplies, at most.
MaxSets == 3

Nodes == 1..MaxNodes
\* "no object": the parent of a root, the options argument left out.
Undefined == 0

\* ---------------------------------------------------------------- values
\* A field value is a literal number or a zero-argument function returning
\* one (a factory given as defaultValue).  Nullish stands for null/undefined.
Lit(n) == [isFn |-> FALSE, v |-> n]
Fn(n) == [isFn |-> TRUE, v |-> n]
Nullish == [isFn |-> FALSE, v |-> -1]
\* The values the caller writes: one the validator rejects, one it accepts.
Values == {Lit(0), Lit(20)}

\* The validator of the schemas below: v => v < 18 ? "too young" : "".
\* On a function value the comparison is with NaN, hence false.
TooYoung(value) ==
  IF ~value.isFn /\ value.v < 18 THEN "too young" ELSE ""

\* ---------------------------------------------------------------- schemas
\* FormOptions the caller supplies.  1: the single-field "age" form with a
\* validator and both callbacks.  2: two fields, a factory default without
\* validator and a validated quantity, no callbacks.  3: no field at all.
\* 4: the line item of a list, one validated field, no callbacks.
\* readOnly is "none" (absent), "true"/"false" (literal) or "fn" (a function
\* of the form, here form => form.fields.qty >= 18).
\* SchemaIds are the options given to the calls of a run; the empty form
\* is the root of an initial tree, the line item the options of the
\* collection of one.
SchemaIds == {1, 2}
EmptySchema == 3
ItemSchema == 4

FieldsOptions(s) ==
  CASE s = 1 -> [age |-> [defaultValue |-> Lit(0), validate |-> TRUE,
                          onChange |-> TRUE, readOnly |-> "none"]]
    [] s = 2 -> [name |-> [defaultValue |-> Fn(20), validate |-> FALSE,
                           onChange |-> FALSE, readOnly |-> "true"],
                 qty |-> [defaultValue |-> Lit(20), validate |-> TRUE,
                          onChange |-> FALSE, readOnly |-> "fn"]]
    [] s = 4 -> [item |-> [defaultValue |-> Lit(0), validate |-> TRUE,
                           onChange |-> FALSE, readOnly |-> "false"]]
    [] OTHER -> [k \in {} |-> [defaultValue |-> Lit(0), validate |-> FALSE,
                               onChange |-> FALSE, readOnly |-> "none"]]

HasOnChangeForm(s) == s = 1

Keys(s) == DOMAIN FieldsOptions(s)

\* ---------------------------------------------------------------- state
VARIABLES
  kind,        \* Nodes -> "free" | "form" | "coll"
  options,     \* the FormOptions of the object (a schema id)
  parent,      \* the parent argument of the constructor, or Undefined
  _fields,     \* Form._fields: key -> [value, validation]
  _validated,  \* Form._validated
  _readOnly,   \* Form._readOnly
  _childs,     \* Form._childs, in push order
  _forms,      \* FormCollection._forms, in push order
  trace,       \* validate() invocations and callbacks fired by the last call
  last,        \* the last public call and its arguments
  before,      \* the fields, flags and lists as they were when it was made
  removed,     \* the forms remove() has taken out of a member list
  revisited,   \* the fields validateField() ran on since the form was cleared
  failed       \* the last call overflowed the stack (a cyclic child list)

vars == <<kind, options, parent, _fields, _validated, _readOnly, _childs,
          _forms, trace, last, before, removed, revisited, failed>>

NoFields == [k \in {} |-> [value |-> Nullish, validation |-> ""]]

Forms == {n \in Nodes : kind[n] = "form"}
Colls == {n \in Nodes : kind[n] = "coll"}
Free == {n \in Nodes : kind[n] = "free"}

\* The object a constructor call creates: the first unused heap cell.
NewNode == CHOOSE n \in Free : \A m \in Free : n <= m

\* A call record: the method, the receiver, the key and value arguments, the
\* message the field carried before the call, and the calls left in the run.
\* arg is the argument of a call that takes neither key nor value: the
\* options of addWithOptions, the value set of the fields setter.
Call(op, n, k, v, old) ==
  [op |-> op, node |-> n, key |-> k, value |-> v, old |-> old,
   arg |-> Undefined, left |-> last.left - 1]

\* The state a call finds.
Snapshot ==
  [f |-> _fields, v |-> _validated, r |-> _readOnly, c |-> _childs,
   m |-> _forms, kind |-> kind, p |-> parent]

\* The caller makes another call: the previous one returned normally.
Ready == ~failed /\ last.left > 0

Event(ev, n, k, seen) == [ev |-> ev, node |-> n, key |-> k, seen |-> seen]

\* Form.setDefaultFields: the defaultValue is stored as it is given.
DefaultFields(s) ==
  [k \in Keys(s) |-> [value |-> FieldsOptions(s)[k].defaultValue,
                      validation |-> ""]]

\* The trees the caller has constructed when the run starts, each the result
\* of constructor calls alone:
\*   "single" a = new Form(1);
\*   "chain"  a = new Form(3); b = new Form(1, a); c = new Form(1, b);
\*   "list"   a = new Form(1); b = new FormCollection(2, a); c = b.add();
\*   "adopted" a = new Form(1); b = new FormCollection(2); c = b.add();
\*            a.addChild(b);
\*   "trio"   a = new Form(1); b = new FormCollection(4, a); b.add();
\*            b.add(); b.add().
InitialTrees == {"single", "chain", "list", "adopted", "trio"}
\* The tree of a run that replaces the members of a collection:
\*   "pair"   a = new Form(1); b = new FormCollection(4, a); b.add();
\*            b.add().

Listed(tree) == tree \in {"list", "adopted", "trio", "pair"}

Built(tree) ==
  IF tree = "single" THEN {1}
  ELSE IF tree = "trio" THEN {1, 2, 3, 4, 5}
  ELSE IF tree = "pair" THEN {1, 2, 3, 4} ELSE {1, 2, 3}

InitialOptions(tree, n) ==
  IF tree = "chain" THEN (IF n = 1 THEN EmptySchema ELSE 1)
  ELSE IF n = 1 THEN 1
  ELSE IF tree \in {"trio", "pair"} THEN ItemSchema ELSE 2

\* The run starts on one of the given trees, with the given number of calls.
InitOn(trees, calls) ==
  \E tree \in trees :
    /\ kind = [n \in Nodes |->
                 IF n \notin Built(tree) THEN "free"
                 ELSE IF Listed(tree) /\ n = 2 THEN "coll" ELSE "form"]
    /\ options = [n \in Nodes |->
                    IF n \notin Built(tree) THEN Undefined
                    ELSE InitialOptions(tree, n)]
    /\ parent = [n \in Nodes |->
                   IF n \notin Built(tree) \/ n = 1 THEN Undefined
                   ELSE IF tree = "chain" THEN n - 1
                   ELSE IF tree \in {"list", "trio", "pair"} THEN 1
                   ELSE Undefined]
    /\ _fields = [n \in Nodes |->
                    IF n \notin Built(tree) THEN NoFields
                    ELSE IF Listed(tree) /\ n = 2 THEN NoFields
                    ELSE DefaultFields(InitialOptions(tree, n))]
    /\ _validated = [n \in Nodes |-> FALSE]
    /\ _readOnly = [n \in Nodes |-> FALSE]
    /\ _childs = [n \in Nodes |->
                    IF tree = "chain" /\ n \in {1, 2} THEN <<n + 1>>
                    ELSE IF tree = "list" /\ n = 1 THEN <<2, 3>>
                    ELSE IF tree = "trio" /\ n = 1 THEN <<2, 3, 4, 5>>
                    ELSE IF tree = "pair" /\ n = 1 THEN <<2, 3, 4>>
                    ELSE IF tree = "adopted" /\ n = 1 THEN <<2>>
                    ELSE <<>>]
    /\ _forms = [n \in Nodes |->
                   IF tree = "trio" /\ n = 2 THEN <<3, 4, 5>>
                   ELSE IF tree = "pair" /\ n = 2 THEN <<3, 4>>
                   ELSE IF Listed(tree) /\ n = 2 THEN <<3>> ELSE <<>>]
    /\ trace = <<>>
    /\ last = [op |-> "none", node |-> Undefined, key |-> "",
               value |-> Nullish, old |-> "", arg |-> Undefined,
               left |-> calls]
    /\ before = Snapshot
    /\ removed = {}
    /\ revisited = {}
    /\ failed = FALSE

Init == InitOn(InitialTrees, MaxCalls)

\* ---------------------------------------------------------------- tree
Range(seq) == {seq[i] : i \in 1..Len(seq)}

\* The objects a fan-out from n calls next: a form's _childs, a collection's
\* _forms.
Succ(n) == Range(_childs[n]) \cup Range(_forms[n])

RECURSIVE ReachFrom(_, _)
ReachFrom(S, i) ==
  IF i = 0 THEN S ELSE ReachFrom(S \cup UNION {Succ(m) : m \in S}, i - 1)

\* The objects below n (n itself when n lies on a cycle).
Descendants(n) == ReachFrom(Succ(n), MaxNodes)

\* The forms a call on n reaches: n itself and the forms below it.
Subtree(n) == ({n} \cup Descendants(n)) \cap Forms

\* The fields of the forms a clearing call on n reaches are unchecked again.
Unchecked(n) == {field \in revisited : field[1] \notin Subtree(n)}

\* A chain of calls of the given length starts at n.
RECURSIVE Deep(_, _)
Deep(n, length) ==
  IF length = 0 THEN TRUE ELSE \E m \in Succ(n) : Deep(m, length - 1)

\* A recursion started at n never returns and overflows the stack: with
\* MaxNodes objects, a chain of MaxNodes calls passes an object twice.
Cyclic(n) == Deep(n, MaxNodes)

\* ---------------------------------------------------------------- heap
\* The mutable part of the heap, threaded through the recursive calls:
\* f = _fields, v = _validated, r = _readOnly, t = the events so far.
Heap == [f |-> _fields, v |-> _validated, r |-> _readOnly, t |-> <<>>]

Commit(h) ==
  /\ _fields' = h.f
  /\ _validated' = h.v
  /\ _readOnly' = h.r
  /\ trace' = h.t

\* options.validate ? options.validate(value, options, this) : ""
Validation(s, k, value) ==
  IF FieldsOptions(s)[k].validate THEN TooYoung(value) ELSE ""

RECURSIVE FormValidate(_, _), CollectionValidate(_, _), EachValidate(_, _)
RECURSIVE FormClearValidations(_, _), CollectionClearValidations(_, _)
RECURSIVE EachClearValidations(_, _)
RECURSIVE FormClearFields(_, _), CollectionClearFields(_, _)
RECURSIVE EachClearFields(_, _)
RECURSIVE FormSetReadOnly(_, _, _), CollectionSetReadOnly(_, _, _)
RECURSIVE EachSetReadOnly(_, _, _)
RECURSIVE FormValidated(_), CollectionValidated(_), NodeValidated(_)
RECURSIVE MapValidated(_), MapValid(_)
RECURSIVE FormValid(_), CollectionValid(_), NodeValid(_)

\* ---------------------------------------------------------------- Form
\* Form.handleChangeForm
HandleChangeForm(h, n) ==
  IF HasOnChangeForm(options[n])
    THEN [h EXCEPT !.t = Append(@, Event("onChangeForm", n, "", h.f[n]))]
    ELSE h

\* new Form(options, parent)
NewForm(s, p) ==
  /\ Ready
  /\ Free # {}
  /\ LET n == NewNode IN
       /\ kind' = [kind EXCEPT ![n] = "form"]
       /\ options' = [options EXCEPT ![n] = s]
       /\ parent' = [parent EXCEPT ![n] = p]
       /\ _fields' = [_fields EXCEPT ![n] = DefaultFields(s)]
       /\ _childs' = IF p # Undefined
                       THEN [_childs EXCEPT ![p] = Append(@, n)]
                       ELSE _childs
       /\ last' = Call("new Form", n, "", Nullish, "")
       /\ before' = Snapshot
  /\ trace' = <<>>
  /\ UNCHANGED <<_validated, _readOnly, _forms, removed, failed, revisited>>

\* Form.addChild
AddChild(p, c) ==
  /\ Ready
  /\ _childs' = [_childs EXCEPT ![p] = Append(@, c)]
  /\ last' = Call("addChild", p, "", Nullish, "")
  /\ before' = Snapshot
  /\ trace' = <<>>
  /\ UNCHANGED <<kind, options, parent, _fields, _validated, _readOnly,
                 _forms, removed, failed, revisited>>

\* Form.set revalidating whatever the own flag says.
FormSetAlways(h, n, k, value) ==
  LET opt == FieldsOptions(options[n])[k]
      written == [h EXCEPT !.f[n][k].value = value]
      checked == [written EXCEPT !.f[n][k].validation =
                    IF opt.validate THEN TooYoung(value) ELSE ""]
      changed == IF opt.onChange
                   THEN [checked EXCEPT !.t =
                           Append(@, Event("onChange", n, k, checked.f[n]))]
                   ELSE checked
  IN HandleChangeForm(changed, n)

\* Form.set without the else branch: an unvalidated form keeps the message.
FormSetKeep(h, n, k, value) ==
  LET opt == FieldsOptions(options[n])[k]
      written == [h EXCEPT !.f[n][k].value = value]
      checked == IF h.v[n] /\ opt.validate
                   THEN [written EXCEPT !.f[n][k].validation = TooYoung(value)]
                   ELSE written
      changed == IF opt.onChange
                   THEN [checked EXCEPT !.t =
                           Append(@, Event("onChange", n, k, checked.f[n]))]
                   ELSE checked
  IN HandleChangeForm(changed, n)

\* Form.set writing the value alone.
FormSetStale(h, n, k, value) ==
  LET opt == FieldsOptions(options[n])[k]
      written == [h EXCEPT !.f[n][k].value = value]
      changed == IF opt.onChange
                   THEN [written EXCEPT !.t =
                           Append(@, Event("onChange", n, k, written.f[n]))]
                   ELSE written
  IN HandleChangeForm(changed, n)

\* Form.set calling onChange before the message is written.
FormSetEarly(h, n, k, value) ==
  LET opt == FieldsOptions(options[n])[k]
      written == [h EXCEPT !.f[n][k].value = value]
      changed == IF opt.onChange
                   THEN [written EXCEPT !.t =
                           Append(@, Event("onChange", n, k, written.f[n]))]
                   ELSE written
      checked == [changed EXCEPT !.f[n][k].validation =
                    IF h.v[n] /\ opt.validate THEN TooYoung(value) ELSE ""]
  IN HandleChangeForm(checked, n)

\* Form.set: the effect on the heap.
FormSet(h, n, k, value) ==
  LET opt == FieldsOptions(options[n])[k]
      written == [h EXCEPT !.f[n][k].value = value]
      checked == [written EXCEPT !.f[n][k].validation =
                    IF h.v[n] /\ opt.validate THEN TooYoung(value) ELSE ""]
      changed == IF opt.onChange
                   THEN [checked EXCEPT !.t =
                           Append(@, Event("onChange", n, k, checked.f[n]))]
                   ELSE checked
  IN HandleChangeForm(changed, n)

Set(n, k, value) ==
  /\ Ready
  /\ Commit(FormSet(Heap, n, k, value))
  /\ last' = Call("set", n, k, value, _fields[n][k].validation)
  /\ before' = Snapshot
  /\ UNCHANGED <<kind, options, parent, _childs, _forms, removed, failed,
                 revisited>>

\* Form.validate without the recursion into the children.
FormValidateShallow(h, n) ==
  LET own == [h EXCEPT
                !.f[n] = [k \in DOMAIN @ |->
                            [value |-> @[k].value,
                             validation |->
                               Validation(options[n], k, @[k].value)]],
                !.v[n] = TRUE]
  IN [own EXCEPT !.t = Append(@, Event("validate", n, "", own.f[n]))]

\* Form.validate: own fields, own flag, then every child in list order.
FormValidate(h, n) ==
  LET own == [h EXCEPT
                !.f[n] = [k \in DOMAIN @ |->
                            [value |-> @[k].value,
                             validation |->
                               Validation(options[n], k, @[k].value)]],
                !.v[n] = TRUE]
      entered == [own EXCEPT !.t = Append(@, Event("validate", n, "", own.f[n]))]
  IN EachValidate(entered, _childs[n])

\* FormCollection.validate
CollectionValidate(h, c) == EachValidate(h, _forms[c])

\* i.validate() for each i of a list (_childs.map, _forms.forEach).
EachValidate(h, seq) ==
  IF seq = <<>> THEN h
  ELSE EachValidate(IF kind[Head(seq)] = "form"
                      THEN FormValidate(h, Head(seq))
                      ELSE CollectionValidate(h, Head(seq)),
                    Tail(seq))

Validate(n) ==
  /\ Ready
  /\ ~Cyclic(n)
  /\ Commit(FormValidate(Heap, n))
  /\ last' = Call("validate", n, "", Nullish, "")
  /\ before' = Snapshot
  /\ UNCHANGED <<kind, options, parent, _childs, _forms, removed, failed,
                 revisited>>

\* Form.validateField behind the test of the own flag that Form.set makes.
FormValidateFieldFlagged(h, n, k) ==
  [h EXCEPT !.f[n][k].validation =
     IF h.v[n] THEN Validation(options[n], k, h.f[n][k].value) ELSE ""]

\* Form.validateField
FormValidateField(h, n, k) ==
  [h EXCEPT !.f[n][k].validation = Validation(options[n], k, h.f[n][k].value)]

ValidateField(n, k) ==
  /\ Ready
  /\ Commit(FormValidateField(Heap, n, k))
  /\ last' = Call("validateField", n, k, Nullish, _fields[n][k].validation)
  /\ before' = Snapshot
  /\ revisited' = revisited \cup {<<n, k>>}
  /\ UNCHANGED <<kind, options, parent, _childs, _forms, removed, failed>>

\* Form.clearValidations without the recursion into the children.
FormClearValidationsOwn(h, n) ==
  [h EXCEPT
     !.f[n] = [k \in DOMAIN @ |-> [value |-> @[k].value, validation |-> ""]],
     !.v[n] = FALSE]

\* Form.clearValidations: own messages, every child, then the own flag.
FormClearValidations(h, n) ==
  LET own == [h EXCEPT
                !.f[n] = [k \in DOMAIN @ |->
                            [value |-> @[k].value, validation |-> ""]]]
      below == EachClearValidations(own, _childs[n])
  IN [below EXCEPT !.v[n] = FALSE]

\* FormCollection.clearValidations
CollectionClearValidations(h, c) == EachClearValidations(h, _forms[c])

EachClearValidations(h, seq) ==
  IF seq = <<>> THEN h
  ELSE EachClearValidations(IF kind[Head(seq)] = "form"
                              THEN FormClearValidations(h, Head(seq))
                              ELSE CollectionClearValidations(h, Head(seq)),
                            Tail(seq))

ClearValidations(n) ==
  /\ Ready
  /\ ~Cyclic(n)
  /\ Commit(FormClearValidations(Heap, n))
  /\ last' = Call("clearValidations", n, "", Nullish, "")
  /\ before' = Snapshot
  /\ revisited' = Unchecked(n)
  /\ UNCHANGED <<kind, options, parent, _childs, _forms, removed, failed>>

\* Form.clearFields without the recursion into the children.
FormClearFieldsOwn(h, n) ==
  HandleChangeForm([h EXCEPT !.f[n] = DefaultFields(options[n]),
                             !.v[n] = FALSE], n)

\* Form.clearFields resetting the values and keeping the messages.
FormClearFieldsKeep(h, n) ==
  LET own == [h EXCEPT
                !.f[n] = [k \in DOMAIN @ |->
                            [value |-> DefaultFields(options[n])[k].value,
                             validation |-> @[k].validation]],
                !.v[n] = FALSE]
      below == EachClearFields(own, _childs[n])
  IN HandleChangeForm(below, n)

\* Form.clearFields: setDefaultFields, own flag, every child, onChangeForm.
\* The function is async without an await: its body runs within the call.
FormClearFields(h, n) ==
  LET own == [h EXCEPT !.f[n] = DefaultFields(options[n]), !.v[n] = FALSE]
      below == EachClearFields(own, _childs[n])
  IN HandleChangeForm(below, n)

\* FormCollection.clearFields
CollectionClearFields(h, c) == EachClearFields(h, _forms[c])

EachClearFields(h, seq) ==
  IF seq = <<>> THEN h
  ELSE EachClearFields(IF kind[Head(seq)] = "form"
                         THEN FormClearFields(h, Head(seq))
                         ELSE CollectionClearFields(h, Head(seq)),
                       Tail(seq))

ClearFields(n) ==
  /\ Ready
  /\ ~Cyclic(n)
  /\ Commit(FormClearFields(Heap, n))
  /\ last' = Call("clearFields", n, "", Nullish, "")
  /\ before' = Snapshot
  /\ revisited' = Unchecked(n)
  /\ UNCHANGED <<kind, options, parent, _childs, _forms, removed, failed>>

\* Form.fields (setter) assigning fields[i] as it is given.
FormSetFieldsAssign(h, n, partial) ==
  LET written == [h EXCEPT
                    !.f[n] = [k \in DOMAIN @ |->
                                [value |-> partial[k],
                                 validation |-> @[k].validation]]]
  IN HandleChangeForm(written, n)

\* Form.fields (setter): fields[i] ?? this._fields[i].value for every key.
FormSetFields(h, n, partial) ==
  LET written == [h EXCEPT
                    !.f[n] = [k \in DOMAIN @ |->
                                [value |-> IF partial[k] = Nullish
                                             THEN @[k].value ELSE partial[k],
                                 validation |-> @[k].validation]]]
  IN HandleChangeForm(written, n)

\* The value sets a caller assigns: per key a value, or null / undefined /
\* nothing.
Partials(s) == [Keys(s) -> Values \cup {Nullish}]

SetFields(n, partial) ==
  /\ Ready
  /\ Commit(FormSetFields(Heap, n, partial))
  /\ last' = [Call("fields=", n, "", Nullish, "") EXCEPT !.arg = partial]
  /\ before' = Snapshot
  /\ UNCHANGED <<kind, options, parent, _childs, _forms, removed, failed,
                 revisited>>

\* Form.fields (getter) copying the field, message included.
FormGetFieldsWhole(n) == [k \in DOMAIN _fields[n] |-> _fields[n][k]]

\* Form.fields (getter): the values without the messages.
FormGetFields(n) == [k \in DOMAIN _fields[n] |-> _fields[n][k].value]

\* form.fields = form.fields: the getter's snapshot given to the setter.
RoundTripFields(n) ==
  /\ Ready
  /\ Commit(FormSetFields(Heap, n, FormGetFields(n)))
  /\ last' = Call("fields=fields", n, "", Nullish, "")
  /\ before' = Snapshot
  /\ UNCHANGED <<kind, options, parent, _childs, _forms, removed, failed,
                 revisited>>

\* Form.readOnly (setter) without the loop over the children.
FormSetReadOnlyOwn(h, n, b) == [h EXCEPT !.r[n] = b]

\* Form.readOnly (setter): own flag, then every child in list order.
FormSetReadOnly(h, n, b) ==
  EachSetReadOnly([h EXCEPT !.r[n] = b], _childs[n], b)

\* FormCollection.readOnly (setter)
CollectionSetReadOnly(h, c, b) == EachSetReadOnly(h, _forms[c], b)

EachSetReadOnly(h, seq, b) ==
  IF seq = <<>> THEN h
  ELSE EachSetReadOnly(IF kind[Head(seq)] = "form"
                         THEN FormSetReadOnly(h, Head(seq), b)
                         ELSE CollectionSetReadOnly(h, Head(seq), b),
                       Tail(seq), b)

SetReadOnly(n, b) ==
  /\ Ready
  /\ ~Cyclic(n)
  /\ Commit(FormSetReadOnly(Heap, n, b))
  /\ last' = Call("readOnly=", n, "", Lit(IF b THEN 1 ELSE 0), "")
  /\ before' = Snapshot
  /\ UNCHANGED <<kind, options, parent, _childs, _forms, removed, failed,
                 revisited>>

\* ---------------------------------------------------------------- getters
\* _childs.map(i => i.validated), _forms.map(i => i.validated)
MapValidated(seq) == [i \in 1..Len(seq) |-> NodeValidated(seq[i])]

\* _forms.map(i => i.valid)
MapValid(seq) == [i \in 1..Len(seq) |-> NodeValid(seq[i])]

\* Form.validated
FormValidated(n) ==
  _validated[n] /\ Len(MapValidated(_childs[n])) = Len(_childs[n])

\* FormCollection.validated
CollectionValidated(c) ==
  Len(_forms[c]) = Len(MapValidated(_forms[c]))

NodeValidated(n) ==
  IF kind[n] = "form" THEN FormValidated(n) ELSE CollectionValidated(n)

\* Form.valid without the test of validated.
FormValidUnchecked(n) ==
  IF \E k \in DOMAIN _fields[n] : _fields[n][k].validation # "" THEN FALSE
  ELSE Len(SelectSeq(_childs[n], NodeValid)) = Len(_childs[n])

\* Form.valid counting the children as Form.validated counts them.
FormValidMapped(n) ==
  IF ~FormValidated(n) THEN FALSE
  ELSE IF \E k \in DOMAIN _fields[n] : _fields[n][k].validation # "" THEN FALSE
  ELSE Len(MapValid(_childs[n])) = Len(_childs[n])

\* Form.valid
FormValid(n) ==
  IF ~FormValidated(n) THEN FALSE
  ELSE IF \E k \in DOMAIN _fields[n] : _fields[n][k].validation # "" THEN FALSE
  ELSE Len(SelectSeq(_childs[n], NodeValid)) = Len(_childs[n])

\* FormCollection.valid
CollectionValid(c) == Len(_forms[c]) = Len(MapValid(_forms[c]))

NodeValid(n) == IF kind[n] = "form" THEN FormValid(n) ELSE CollectionValid(n)

\* The readOnly function of the schemas: form => form.fields.qty >= 18 (false
\* on a value that is not a number).
ReadOnlyFn(n) ==
  LET qty == _fields[n].qty.value IN ~qty.isFn /\ qty.v >= 18

\* Form.isFieldReadOnly
IsFieldReadOnly(n, k) ==
  LET fieldOptions == FieldsOptions(options[n])[k]
  IN IF _readOnly[n] THEN TRUE
     ELSE IF fieldOptions.readOnly \in {"true", "false"}
       THEN fieldOptions.readOnly = "true"
     ELSE IF fieldOptions.readOnly = "fn" THEN ReadOnlyFn(n)
     ELSE FALSE

\* Form.get: the field spread, and its options.
FormGet(n, k) ==
  [value |-> _fields[n][k].value,
   validation |-> _fields[n][k].validation,
   options |-> FieldsOptions(options[n])[k]]

\* ---------------------------------------------------------------- FormCollection
\* new FormCollection(options, parent): parent.addChild(this)
NewCollection(s, p) ==
  /\ Ready
  /\ Free # {}
  /\ LET c == NewNode IN
       /\ kind' = [kind EXCEPT ![c] = "coll"]
       /\ options' = [options EXCEPT ![c] = s]
       /\ parent' = [parent EXCEPT ![c] = p]
       /\ _childs' = IF p # Undefined
                       THEN [_childs EXCEPT ![p] = Append(@, c)]
                       ELSE _childs
       /\ last' = Call("new FormCollection", c, "", Nullish, "")
       /\ before' = Snapshot
  /\ trace' = <<>>
  /\ UNCHANGED <<_fields, _validated, _readOnly, _forms, removed, failed,
                 revisited>>

\* FormCollection.addWithOptions giving the form the flags of the parent.
AddAsInherit(op, c, s) ==
  /\ Ready
  /\ Free # {}
  /\ LET n == NewNode
         used == IF s = Undefined THEN options[c] ELSE s
     IN
       /\ kind' = [kind EXCEPT ![n] = "form"]
       /\ options' = [options EXCEPT ![n] = used]
       /\ parent' = [parent EXCEPT ![n] = parent[c]]
       /\ _fields' = [_fields EXCEPT ![n] = DefaultFields(used)]
       /\ _childs' = IF parent[c] # Undefined
                       THEN [_childs EXCEPT ![parent[c]] = Append(@, n)]
                       ELSE _childs
       /\ _forms' = [_forms EXCEPT ![c] = Append(@, n)]
       /\ _readOnly' = IF parent[c] # Undefined
                         THEN [_readOnly EXCEPT ![n] = _readOnly[parent[c]]]
                         ELSE _readOnly
       /\ _validated' = IF parent[c] # Undefined
                          THEN [_validated EXCEPT ![n] = _validated[parent[c]]]
                          ELSE _validated
       /\ last' = [Call(op, c, "", Lit(n), "") EXCEPT !.arg = s]
       /\ before' = Snapshot
  /\ trace' = <<>>
  /\ UNCHANGED <<removed, failed, revisited>>

\* FormCollection.addWithOptions constructing the form without parent.
AddAsOrphan(op, c, s) ==
  /\ Ready
  /\ Free # {}
  /\ LET n == NewNode
         used == IF s = Undefined THEN options[c] ELSE s
     IN
       /\ kind' = [kind EXCEPT ![n] = "form"]
       /\ options' = [options EXCEPT ![n] = used]
       /\ _fields' = [_fields EXCEPT ![n] = DefaultFields(used)]
       /\ _forms' = [_forms EXCEPT ![c] = Append(@, n)]
       /\ last' = [Call(op, c, "", Lit(n), "") EXCEPT !.arg = s]
       /\ before' = Snapshot
  /\ trace' = <<>>
  /\ UNCHANGED <<parent, _childs, _validated, _readOnly, removed, failed,
                 revisited>>

\* FormCollection.addWithOptions: new Form(options ?? this.options,
\* this.parent), pushed to _forms.  The call is named op in the call record.
AddAs(op, c, s) ==
  /\ Ready
  /\ Free # {}
  /\ LET n == NewNode
         used == IF s = Undefined THEN options[c] ELSE s
     IN
       /\ kind' = [kind EXCEPT ![n] = "form"]
       /\ options' = [options EXCEPT ![n] = used]
       /\ parent' = [parent EXCEPT ![n] = parent[c]]
       /\ _fields' = [_fields EXCEPT ![n] = DefaultFields(used)]
       /\ _childs' = IF parent[c] # Undefined
                       THEN [_childs EXCEPT ![parent[c]] = Append(@, n)]
                       ELSE _childs
       /\ _forms' = [_forms EXCEPT ![c] = Append(@, n)]
       /\ last' = [Call(op, c, "", Lit(n), "") EXCEPT !.arg = s]
       /\ before' = Snapshot
  /\ trace' = <<>>
  /\ UNCHANGED <<_validated, _readOnly, removed, failed, revisited>>

AddWithOptions(c, s) == AddAs("addWithOptions", c, s)

\* FormCollection.add
Add(c) == AddAs("add", c, options[c])

\* FormCollection.remove taking the form out of the parent's list as well.
RemoveDetach(c, form) ==
  /\ Ready
  /\ _forms' = [_forms EXCEPT ![c] = SelectSeq(@, LAMBDA i : i # form)]
  /\ _childs' = IF parent[c] # Undefined /\ form \in Range(_forms[c])
                  THEN [_childs EXCEPT ![parent[c]] =
                          SelectSeq(@, LAMBDA i : i # form)]
                  ELSE _childs
  /\ removed' = removed \cup ({form} \cap Range(_forms[c]))
  /\ last' = Call("remove", c, "", Lit(form), "")
  /\ before' = Snapshot
  /\ trace' = <<>>
  /\ UNCHANGED <<kind, options, parent, _fields, _validated, _readOnly,
                 failed, revisited>>

\* FormCollection.remove
Remove(c, form) ==
  /\ Ready
  /\ _forms' = [_forms EXCEPT ![c] = SelectSeq(@, LAMBDA i : i # form)]
  /\ removed' = removed \cup ({form} \cap Range(_forms[c]))
  /\ last' = Call("remove", c, "", Lit(form), "")
  /\ before' = Snapshot
  /\ trace' = <<>>
  /\ UNCHANGED <<kind, options, parent, _fields, _validated, _readOnly,
                 _childs, failed, revisited>>

\* The value sets (TFields) of a schema, and the lists of at most the given
\* number of them.
ValueSets(s) == [Keys(s) -> Values]

RECURSIVE ValueLists(_, _)
ValueLists(s, length) ==
  IF length = 0 THEN {<<>>}
  ELSE LET shorter == ValueLists(s, length - 1)
       IN shorter \cup {Append(list, given) :
                          list \in shorter, given \in ValueSets(s)}

\* The objects, their fields and lists, threaded through the loop of the
\* bulk assignment; t = the events so far.
World ==
  [kind |-> kind, options |-> options, parent |-> parent, f |-> _fields,
   c |-> _childs, m |-> _forms, t |-> <<>>]

\* fields.forEach(i => { this.add().fields = i; }): for each value set a new
\* form of the collection's options and parent, registered with the parent,
\* pushed to _forms, then written through Form.fields (fields[i] ?? old,
\* onChangeForm).
RECURSIVE CollectionSetEach(_, _, _)
CollectionSetEach(w, c, sets) ==
  IF sets = <<>> THEN w
  ELSE
    LET unused == {x \in Nodes : w.kind[x] = "free"}
        n == CHOOSE x \in unused : \A y \in unused : x <= y
        given == Head(sets)
        added == [w EXCEPT
                    !.kind[n] = "form",
                    !.options[n] = options[c],
                    !.parent[n] = parent[c],
                    !.f[n] = DefaultFields(options[c]),
                    !.c = IF parent[c] # Undefined
                            THEN [@ EXCEPT ![parent[c]] = Append(@, n)]
                            ELSE @,
                    !.m[c] = Append(@, n)]
        written == [added EXCEPT
                      !.f[n] = [k \in DOMAIN @ |->
                                  [value |-> IF given[k] = Nullish
                                               THEN @[k].value ELSE given[k],
                                   validation |-> @[k].validation]]]
        fired == IF HasOnChangeForm(options[c])
                   THEN [written EXCEPT !.t =
                           Append(@, Event("onChangeForm", n, "",
                                           written.f[n]))]
                   ELSE written
    IN CollectionSetEach(fired, c, Tail(sets))

\* FormCollection.fields (setter) without the reset of the member list.
CollectionSetFieldsKeep(w, c, sets) == CollectionSetEach(w, c, sets)

\* FormCollection.fields (setter): this._forms = [], then the loop.
CollectionSetFields(w, c, sets) ==
  CollectionSetEach([w EXCEPT !.m[c] = <<>>], c, sets)

CollSetFields(c, sets) ==
  /\ Ready
  /\ Cardinality(Free) >= Len(sets)
  /\ LET w == CollectionSetFields(World, c, sets)
     IN /\ kind' = w.kind
        /\ options' = w.options
        /\ parent' = w.parent
        /\ _fields' = w.f
        /\ _childs' = w.c
        /\ _forms' = w.m
        /\ trace' = w.t
  /\ last' = [Call("collection.fields=", c, "", Nullish, "")
                EXCEPT !.arg = sets]
  /\ before' = Snapshot
  /\ UNCHANGED <<_validated, _readOnly, removed, revisited, failed>>

CollValidate(c) ==
  /\ Ready
  /\ ~Cyclic(c)
  /\ Commit(CollectionValidate(Heap, c))
  /\ last' = Call("validate", c, "", Nullish, "")
  /\ before' = Snapshot
  /\ UNCHANGED <<kind, options, parent, _childs, _forms, removed, failed,
                 revisited>>

CollClearValidations(c) ==
  /\ Ready
  /\ ~Cyclic(c)
  /\ Commit(CollectionClearValidations(Heap, c))
  /\ last' = Call("clearValidations", c, "", Nullish, "")
  /\ before' = Snapshot
  /\ revisited' = Unchecked(c)
  /\ UNCHANGED <<kind, options, parent, _childs, _forms, removed, failed>>

CollClearFields(c) ==
  /\ Ready
  /\ ~Cyclic(c)
  /\ Commit(CollectionClearFields(Heap, c))
  /\ last' = Call("clearFields", c, "", Nullish, "")
  /\ before' = Snapshot
  /\ revisited' = Unchecked(c)
  /\ UNCHANGED <<kind, options, parent, _childs, _forms, removed, failed>>

CollSetReadOnly(c, b) ==
  /\ Ready
  /\ ~Cyclic(c)
  /\ Commit(CollectionSetReadOnly(Heap, c, b))
  /\ last' = Call("readOnly=", c, "", Lit(IF b THEN 1 ELSE 0), "")
  /\ before' = Snapshot
  /\ UNCHANGED <<kind, options, parent, _childs, _forms, removed, failed,
                 revisited>>

\* A call that recurses through the children (validate, clearValidations,
\* clearFields, readOnly=, validated, valid) on an object of a cyclic child
\* list: the recursion never returns, the engine throws a RangeError and the
\* caller's run ends there.
Overflow(n) ==
  /\ Ready
  /\ Cyclic(n)
  /\ failed' = TRUE
  /\ last' = Call("overflow", n, "", Nullish, "")
  /\ before' = Snapshot
  /\ trace' = <<>>
  /\ UNCHANGED <<kind, options, parent, _fields, _validated, _readOnly,
                 _childs, _forms, removed, revisited>>

Next ==
  \/ \E s \in SchemaIds, p \in Forms \cup {Undefined} : NewForm(s, p)
  \/ \E p \in Forms, c \in Forms \cup Colls : AddChild(p, c)
  \/ \E n \in Forms : \E k \in Keys(options[n]), value \in Values :
       Set(n, k, value)
  \/ \E n \in Forms : Validate(n)
  \/ \E n \in Forms : \E k \in Keys(options[n]) : ValidateField(n, k)
  \/ \E n \in Forms : ClearValidations(n)
  \/ \E n \in Forms : ClearFields(n)
  \/ \E n \in Forms : \E partial \in Partials(options[n]) :
       SetFields(n, partial)
  \/ \E n \in Forms : RoundTripFields(n)
  \/ \E n \in Forms, b \in BOOLEAN : SetReadOnly(n, b)
  \/ \E s \in SchemaIds, p \in Forms \cup {Undefined} : NewCollection(s, p)
  \/ \E c \in Colls, s \in SchemaIds \cup {Undefined} : AddWithOptions(c, s)
  \/ \E c \in Colls : Add(c)
  \/ \E c \in Colls, form \in Forms : Remove(c, form)
  \/ \E c \in Colls : CollValidate(c)
  \/ \E c \in Colls : CollClearValidations(c)
  \/ \E c \in Colls : CollClearFields(c)
  \/ \E c \in Colls, b \in BOOLEAN : CollSetReadOnly(c, b)
  \/ \E n \in Forms \cup Colls : Overflow(n)

Spec == Init /\ [][Next]_vars

\* The scenario of the single-field "age" form: the caller constructs forms
\* of schema 1 without parent and calls every method of Form on them but
\* validateField.
ScenarioInit == InitOn({"single"}, ScenarioCalls)

ScenarioNext ==
  \/ NewForm(1, Undefined)
  \/ \E n \in Forms, value \in Values : Set(n, "age", value)
  \/ \E n \in Forms : Validate(n)
  \/ \E n \in Forms : ClearValidations(n)
  \/ \E n \in Forms : ClearFields(n)
  \/ \E n \in Forms : \E partial \in Partials(options[n]) :
       SetFields(n, partial)
  \/ \E n \in Forms, b \in BOOLEAN : SetReadOnly(n, b)

ScenarioSpec == ScenarioInit /\ [][ScenarioNext]_vars

\* The replacement of the members of a collection: on a form with a
\* collection of two line items the caller assigns value sets to the
\* collection, adds and removes members, constructs further collections with
\* and without parent, and runs the lifecycle of the forms.
ReplaceInit == InitOn({"pair"}, ReplaceCalls)

ReplaceNext ==
  \/ \E c \in Colls : \E sets \in ValueLists(options[c], MaxSets) :
       CollSetFields(c, sets)
  \/ \E c \in Colls : Add(c)
  \/ \E c \in Colls, s \in {ItemSchema, Undefined} : AddWithOptions(c, s)
  \/ \E c \in Colls, form \in Forms : Remove(c, form)
  \/ \E p \in Forms \cup {Undefined} : NewCollection(ItemSchema, p)
  \/ \E n \in Forms : Validate(n)
  \/ \E n \in Forms : ClearValidations(n)
  \/ \E n \in Forms : ClearFields(n)
  \/ \E n \in Forms, b \in BOOLEAN : SetReadOnly(n, b)

ReplaceSpec == ReplaceInit /\ [][ReplaceNext]_vars

\* ---------------------------------------------------------------- claims
NoOwnMessage(n) == \A k \in DOMAIN _fields[n] : _fields[n][k].validation = ""

\* Every message of the form is what its validator says of the current value.
Revalidated(n) ==
  \A k \in DOMAIN _fields[n] :
    _fields[n][k].validation = Validation(options[n], k, _fields[n][k].value)

\* How often validate() was invoked on form d during the last call.
Visits(d) ==
  Cardinality({i \in 1..Len(trace) :
                 trace[i].ev = "validate" /\ trace[i].node = d})

\* defaultValue evaluated: a factory is invoked, a literal is taken as it is.
Evaluated(d) == IF d.isFn THEN Lit(d.v) ELSE d

\* C1: Form.validated reads true iff the own flag is true and every direct
\* child reports validated = true.
C1_ValidatedAggregates ==
  \A n \in Forms :
    ~Cyclic(n) =>
      (FormValidated(n) <=> (_validated[n] /\ (\A i \in 1..Len(_childs[n]) : NodeValidated(_childs[n][i]))))

\* C2: FormCollection.valid (validated) reads true iff every current member's
\* valid (validated) reads true.
C2_CollectionAggregates ==
  \A c \in Colls :
    ~Cyclic(c) =>
      /\ CollectionValid(c) <=> (\A i \in 1..Len(_forms[c]) : FormValid(_forms[c][i]))
      /\ CollectionValidated(c) <=> (\A i \in 1..Len(_forms[c]) : FormValidated(_forms[c][i]))

\* C3: a form whose validated reads false has valid reading false, whatever
\* its messages are.
C3_ValidRequiresValidated ==
  \A n \in Forms : ~Cyclic(n) => (~FormValidated(n) => ~FormValid(n))

\* C3 witness: after a clearValidations() the form reads validated = false,
\* no form below it carries a message, and valid reads false.
C3_Witness ==
  /\ last.op = "clearValidations"
  /\ last.node \in Forms
  /\ _childs[last.node] # <<>>
  /\ \A d \in Subtree(last.node) : NoOwnMessage(d)
  /\ ~FormValidated(last.node)
  /\ ~FormValid(last.node)

\* C4: a form whose validated reads true has valid reading true iff none of
\* its own fields carries a message and every direct child reports valid.
C4_ValidOfValidated ==
  \A n \in Forms :
    (~Cyclic(n) /\ FormValidated(n)) =>
      (FormValid(n) <=> (NoOwnMessage(n) /\ (\A i \in 1..Len(_childs[n]) : NodeValid(_childs[n][i]))))

\* C4 witness: a validated form without own message whose child form is not
\* valid reads valid = false.
C4_Witness ==
  \E n \in Forms :
    /\ ~Cyclic(n)
    /\ FormValidated(n)
    /\ NoOwnMessage(n)
    /\ \E i \in 1..Len(_childs[n]) :
         kind[_childs[n][i]] = "form" /\ ~FormValid(_childs[n][i])
    /\ ~FormValid(n)

\* C5: set(key, v) writes v, sets the field's message to validator(v) when the
\* own flag is true and the field has a validator and to "" otherwise, and
\* leaves the own flag and every other field of every form as they were.
C5_SetEffect ==
  [][last'.op = "set" =>
       LET n == last'.node
           k == last'.key
           opt == FieldsOptions(options[n])[k]
       IN /\ _fields'[n][k].value = last'.value
          /\ _fields'[n][k].validation =
               IF _validated[n] /\ opt.validate
                 THEN TooYoung(last'.value) ELSE ""
          /\ _validated' = _validated
          /\ \A m \in Forms : \A j \in DOMAIN _fields[m] :
               (m # n \/ j # k) => _fields'[m][j] = _fields[m][j]
          /\ DOMAIN _fields'[n] = DOMAIN _fields[n]]_vars

\* C5 witness: a set on a validated form of two fields has written a value
\* the validator rejects, and the field carries the validator's message.
C5_Witness ==
  /\ last.op = "set"
  /\ _validated[last.node]
  /\ Cardinality(DOMAIN _fields[last.node]) = 2
  /\ TooYoung(last.value) # ""
  /\ _fields[last.node][last.key].value = last.value
  /\ _fields[last.node][last.key].validation = "too young"

\* C6 as stated: on a validated form with a message on F, set(F, v) leaves F
\* without message whatever v is.
C6_SetClearsOnValidated ==
  (/\ last.op = "set"
   /\ last.old # ""
   /\ ~Cyclic(last.node)
   /\ FormValidated(last.node))
    => _fields[last.node][last.key].validation = ""

\* C6 amended: on a form with a message on F, set(F, v) leaves F without
\* message whatever v is when the own flag is false, and with validator(v)
\* when the own flag is true.
C6_SetOnStaleMessage ==
  (last.op = "set" /\ last.old # "") =>
    _fields[last.node][last.key].validation =
      IF _validated[last.node] THEN TooYoung(last.value) ELSE ""

\* C6 witness: a field of an unvalidated form carried a message, set wrote a
\* value the validator rejects, and the message is gone.
C6_Witness ==
  /\ last.op = "set"
  /\ last.old # ""
  /\ ~_validated[last.node]
  /\ TooYoung(last.value) # ""
  /\ _fields[last.node][last.key].validation = ""

\* C7: on the single-field form, the message is empty before any validate();
\* after validate() of a rejected value the message is the validator's text
\* and valid is false; after a later set of an accepted value, without
\* another validate(), the message is empty and valid is true.
C7_AgeScenario ==
  /\ \A n \in Forms : ~_validated[n] => _fields[n].age.validation = ""
  /\ (last.op = "validate" /\ TooYoung(_fields[last.node].age.value) # "") =>
       /\ _fields[last.node].age.validation = "too young"
       /\ ~FormValid(last.node)
  /\ (last.op = "set" /\ _validated[last.node] /\ TooYoung(last.value) = "") =>
       /\ _fields[last.node].age.validation = ""
       /\ FormValid(last.node)

\* C7 witness: the third call of the run is the set of an accepted value on a
\* validated form whose field carried "too young"; now valid reads true.
C7_Witness ==
  /\ last.op = "set"
  /\ last.left = ScenarioCalls - 3
  /\ last.old = "too young"
  /\ TooYoung(last.value) = ""
  /\ _fields[last.node].age.validation = ""
  /\ FormValid(last.node)

\* C8: after the constructor and after clearFields() the fields snapshot of
\* the form equals the evaluated defaults of its schema.
C8_EvaluatedDefaults ==
  (last.op \in {"new Form", "clearFields"} /\ last.node \in Forms) =>
    \A k \in Keys(options[last.node]) :
      FormGetFields(last.node)[k] =
        Evaluated(FieldsOptions(options[last.node])[k].defaultValue)

\* C9: after validate() on a form, every form of its subtree (the members of
\* child collections included) has its own flag true and every message equal
\* to what the validator says of the current value.
C9_ValidateSubtree ==
  (last.op = "validate" /\ last.node \in Forms) =>
    \A d \in Subtree(last.node) : _validated[d] /\ Revalidated(d)

\* C9 witness: validate() on a form with a child collection; a member that
\* is reached through the collection alone carries the validator's message.
C9_Witness ==
  /\ last.op = "validate"
  /\ last.node \in Forms
  /\ \E c \in Colls : \E m \in Range(_forms[c]) :
       /\ c \in Range(_childs[last.node])
       /\ m \notin Range(_childs[last.node])
       /\ _validated[m]
       /\ \E k \in DOMAIN _fields[m] : _fields[m][k].validation = "too young"

\* C10: one validate() on a form invokes validate() exactly once on every
\* form of its subtree.
C10_VisitedOnce ==
  (last.op = "validate" /\ last.node \in Forms) =>
    \A d \in Subtree(last.node) : Visits(d) = 1

C12_ClearValidationsSubtree ==
  (last.op = "clearValidations" /\ last.node \in Forms) =>
    \A d \in Subtree(last.node) :
      /\ NoOwnMessage(d)
      /\ ~_validated[d]
      /\ DOMAIN _fields[d] = DOMAIN before.f[d]
      /\ \A k \in DOMAIN _fields[d] : _fields[d][k].value = before.f[d][k].value

\* C12 witness: clearValidations() on a form with a child collection; a
\* member was validated and carried a message, and is now unvalidated and
\* without message.
C12_Witness ==
  /\ last.op = "clearValidations"
  /\ last.node \in Forms
  /\ \E c \in Colls : \E m \in Range(_forms[c]) :
       /\ c \in Range(_childs[last.node])
       /\ before.v[m]
       /\ \E k \in DOMAIN _fields[m] : before.f[m][k].validation # ""
       /\ ~_validated[m]
       /\ NoOwnMessage(m)

\* C13: when clearFields() on a form has returned, every value of every form
\* of its subtree is the defaultValue of its schema and every own flag of the
\* subtree is false.
C13_ClearFieldsSubtree ==
  (last.op = "clearFields" /\ last.node \in Forms) =>
    \A d \in Subtree(last.node) :
      /\ ~_validated[d]
      /\ DOMAIN _fields[d] = Keys(options[d])
      /\ \A k \in Keys(options[d]) :
           _fields[d][k].value = FieldsOptions(options[d])[k].defaultValue

\* C13 witness: clearFields() on a form; a form below it held a value other
\* than its default and holds the default now.
C13_Witness ==
  /\ last.op = "clearFields"
  /\ last.node \in Forms
  /\ \E d \in Subtree(last.node) \ {last.node} : \E k \in DOMAIN _fields[d] :
       /\ before.f[d][k].value # FieldsOptions(options[d])[k].defaultValue
       /\ _fields[d][k].value = FieldsOptions(options[d])[k].defaultValue

\* C14 as stated: a field that carried a message before clearFields() on its
\* form carries the same message afterwards.
C14_MessagesSurviveReset ==
  (last.op = "clearFields" /\ last.node \in Forms) =>
    \A k \in DOMAIN _fields[last.node] :
      before.f[last.node][k].validation # "" =>
        _fields[last.node][k].validation = before.f[last.node][k].validation

\* C14 amended: after clearFields() on a form, no field of the form or of a
\* form of its subtree carries a message.
C14_ResetClearsMessages ==
  (last.op = "clearFields" /\ last.node \in Forms) =>
    \A d \in Subtree(last.node) : NoOwnMessage(d)

\* C14 witness: a field of the form carried a message before clearFields()
\* and carries none now.
C14_Witness ==
  /\ last.op = "clearFields"
  /\ last.node \in Forms
  /\ \E k \in DOMAIN _fields[last.node] :
       /\ before.f[last.node][k].validation # ""
       /\ _fields[last.node][k].validation = ""

\* The callbacks of the given name the last call fired.
Fired(ev) == SelectSeq(trace, LAMBDA e : e.ev = ev)

\* C15: writing fields with a value set overwrites the values of the keys
\* given with a value and keeps those of the keys given as null, undefined
\* or not at all; no message and no flag changes, no onChange fires, and
\* onChangeForm (when the form has one) fires once, seeing the new values.
C15_BulkWriteFrame ==
  last.op = "fields=" =>
    LET n == last.node
        partial == last.arg
    IN /\ _fields =
            [before.f EXCEPT ![n] =
               [k \in DOMAIN before.f[n] |->
                  [value |-> IF partial[k] # Nullish
                               THEN partial[k] ELSE before.f[n][k].value,
                   validation |-> before.f[n][k].validation]]]
       /\ _validated = before.v
       /\ Fired("onChange") = <<>>
       /\ trace = IF HasOnChangeForm(options[n])
                    THEN <<Event("onChangeForm", n, "", _fields[n])>>
                    ELSE <<>>

\* C15 witness: a bulk write of an accepted value to a validated form whose
\* field carried the validator's message: the value is written, the message
\* stays, and onChangeForm fired once.
C15_Witness ==
  /\ last.op = "fields="
  /\ _validated[last.node]
  /\ \E k \in DOMAIN _fields[last.node] :
       /\ _fields[last.node][k].value = last.arg[k]
       /\ _fields[last.node][k].value # before.f[last.node][k].value
       /\ TooYoung(last.arg[k]) = ""
       /\ _fields[last.node][k].validation = "too young"
  /\ Len(Fired("onChangeForm")) = 1

\* C16: form.fields = form.fields leaves every value of the form as it was
\* and fires onChangeForm (when the form has one) once.
C16_RoundTripFields ==
  last.op = "fields=fields" =>
    LET n == last.node
    IN /\ DOMAIN _fields[n] = DOMAIN before.f[n]
       /\ \A k \in DOMAIN _fields[n] :
            _fields[n][k].value = before.f[n][k].value
       /\ Len(Fired("onChangeForm")) =
            IF HasOnChangeForm(options[n]) THEN 1 ELSE 0

\* C16 witness: the round trip on a form that holds a value other than its
\* default; the value is still there and onChangeForm fired once.
C16_Witness ==
  /\ last.op = "fields=fields"
  /\ Len(Fired("onChangeForm")) = 1
  /\ \E k \in DOMAIN _fields[last.node] :
       /\ _fields[last.node][k].value #
            FieldsOptions(options[last.node])[k].defaultValue
       /\ _fields[last.node][k].value = before.f[last.node][k].value

\* C17: readOnly = v on a form or a collection sets the flag of every form
\* of its subtree (the node itself when it is a form) to v; after
\* readOnly = true, isFieldReadOnly is true of every field of every form of
\* the subtree.
C17_ReadOnlyCascade ==
  last.op = "readOnly=" =>
    \A d \in Subtree(last.node) :
      /\ _readOnly[d] = (last.value = Lit(1))
      /\ last.value = Lit(1) =>
           \A k \in Keys(options[d]) : IsFieldReadOnly(d, k)

\* C17 witness: readOnly = true on a root with a child collection of three
\* members; isFieldReadOnly is true of a field of each member whose schema
\* says readOnly: false.
C17_Witness ==
  /\ last.op = "readOnly="
  /\ last.value = Lit(1)
  /\ last.node \in Forms
  /\ parent[last.node] = Undefined
  /\ \E c \in Colls :
       /\ c \in Range(_childs[last.node])
       /\ Len(_forms[c]) = 3
       /\ \A m \in Range(_forms[c]) :
            /\ ~before.r[m]
            /\ \E k \in Keys(options[m]) :
                 /\ FieldsOptions(options[m])[k].readOnly = "false"
                 /\ IsFieldReadOnly(m, k)

\* C18: get(key) returns the value and the message of the field and a
\* readOnly flag equal to isFieldReadOnly(key).
C18_GetReadOnly ==
  \A n \in Forms : \A k \in Keys(options[n]) :
    /\ FormGet(n, k).value = _fields[n][k].value
    /\ FormGet(n, k).validation = _fields[n][k].validation
    /\ "readOnly" \in DOMAIN FormGet(n, k)
    /\ FormGet(n, k).readOnly = IsFieldReadOnly(n, k)

\* C19: add() / addWithOptions(schema) creates one form with the defaults of
\* the schema given (the collection's when none is given), appends it to the
\* member list, whose other members stay in place, returns it, and appends
\* it to the child list of the collection's parent when there is one.
C19_AddAppends ==
  last.op \in {"add", "addWithOptions"} =>
    LET c == last.node
        new == last.value.v
        used == IF last.arg = Undefined THEN options[c] ELSE last.arg
    IN /\ before.kind[new] = "free"
       /\ kind = [before.kind EXCEPT ![new] = "form"]
       /\ options[new] = used
       /\ _fields = [before.f EXCEPT ![new] = DefaultFields(used)]
       /\ ~_validated[new] /\ ~_readOnly[new] /\ _childs[new] = <<>>
       /\ _forms = [before.m EXCEPT ![c] = Append(@, new)]
       /\ parent[new] = parent[c]
       /\ _childs = IF parent[c] # Undefined
                      THEN [before.c EXCEPT ![parent[c]] = Append(@, new)]
                      ELSE before.c

\* C19 witness: addWithOptions without options on a collection that has a
\* parent and members; the new form is the last member and the last child
\* of the parent.
C19_Witness ==
  /\ last.op = "addWithOptions"
  /\ last.arg = Undefined
  /\ parent[last.node] # Undefined
  /\ before.m[last.node] # <<>>
  /\ Len(_forms[last.node]) = Len(before.m[last.node]) + 1
  /\ _forms[last.node][Len(_forms[last.node])] = last.value.v
  /\ LET siblings == _childs[parent[last.node]]
     IN siblings[Len(siblings)] = last.value.v
  /\ options[last.value.v] = options[last.node]

\* C20: remove(form) takes the form out of the member list, the others
\* staying in order, does nothing when the form is no member, and leaves
\* the child lists alone; a removed member stays a child of the parent, is
\* reached by the parent's validate(), clearValidations(), clearFields() and
\* readOnly assignment, and keeps the parent's valid false while it is not
\* valid itself.
C20_RemoveKeepsChild ==
  /\ last.op = "remove" =>
       /\ _forms = [before.m EXCEPT ![last.node] =
                      SelectSeq(@, LAMBDA i : i # last.value.v)]
       /\ last.value.v \notin Range(before.m[last.node]) => _forms = before.m
       /\ _childs = before.c
       /\ _fields = before.f
       /\ _validated = before.v
       /\ _readOnly = before.r
  /\ \A m \in removed :
       parent[m] # Undefined =>
         LET p == parent[m]
         IN /\ m \in Range(_childs[p])
            /\ (last.node = p /\ last.op = "validate") =>
                 Visits(m) >= 1 /\ _validated[m] /\ Revalidated(m)
            /\ (last.node = p /\ last.op = "clearValidations") =>
                 NoOwnMessage(m) /\ ~_validated[m]
            /\ (last.node = p /\ last.op = "clearFields") =>
                 _fields[m] = DefaultFields(options[m]) /\ ~_validated[m]
            /\ (last.node = p /\ last.op = "readOnly=") =>
                 _readOnly[m] = (last.value = Lit(1))
            /\ (~Cyclic(p) /\ ~FormValid(m)) => ~FormValid(p)

\* C20 witness: validate() on the parent after a member was removed from its
\* collection: the removed form is in no member list, was validated by the
\* call, carries a message, and the parent's valid is false.
C20_Witness ==
  /\ last.op = "validate"
  /\ last.node \in Forms
  /\ \E m \in removed :
       /\ parent[m] = last.node
       /\ \A c \in Colls : m \notin Range(_forms[c])
       /\ Visits(m) = 1
       /\ _validated[m]
       /\ ~NoOwnMessage(m)
       /\ ~FormValid(last.node)

\* C21: after collection.fields = sets the collection has as many members as
\* value sets were given, each a form constructed by the call and none a
\* member of before, the i-th holding the values of the i-th set; the
\* members of before are still in the child list of the collection's parent.
C21_BulkReplace ==
  last.op = "collection.fields=" =>
    LET c == last.node
        sets == last.arg
        members == _forms[c]
    IN /\ Len(members) = Len(sets)
       /\ \A i \in 1..Len(members) :
            /\ before.kind[members[i]] = "free"
            /\ kind[members[i]] = "form"
            /\ members[i] \notin Range(before.m[c])
            /\ FormGetFields(members[i]) = sets[i]
            /\ \A j \in 1..Len(members) : i # j => members[i] # members[j]
       /\ parent[c] # Undefined =>
            \A old \in Range(before.m[c]) : old \in Range(_childs[parent[c]])

\* C21 witness: three value sets, the first two different, assigned to a
\* collection of two members; it now has three members holding the sets in
\* order, and the two members of before are children of the parent still.
C21_Witness ==
  /\ last.op = "collection.fields="
  /\ Len(before.m[last.node]) = 2
  /\ Len(last.arg) = 3
  /\ last.arg[1] # last.arg[2]
  /\ Len(_forms[last.node]) = 3
  /\ \A i \in 1..3 : FormGetFields(_forms[last.node][i]) = last.arg[i]
  /\ parent[last.node] # Undefined
  /\ \A old \in Range(before.m[last.node]) :
       /\ old \notin Range(_forms[last.node])
       /\ old \in Range(_childs[parent[last.node]])

\* C22: no object appears twice in the child list of a form.
C22_ChildOnce ==
  \A p \in Forms : \A i, j \in 1..Len(_childs[p]) :
    i # j => _childs[p][i] # _childs[p][j]

\* C23: a field carries a message only if validate() ran on its form, or
\* validateField() on the field, since the form was constructed and last
\* cleared by clearValidations() or clearFields(); so a form whose own flag
\* is false and whose fields validateField() did not run on has no message.
C23_MessagesAfterValidation ==
  \A n \in Forms : \A k \in DOMAIN _fields[n] :
    _fields[n][k].validation # "" =>
      (_validated[n] \/ <<n, k>> \in revisited)

\* C23 witness: clearValidations() on a form that does not reach a second,
\* unvalidated form, a field of which validateField() ran on: the field
\* carries its message still.
C23_Witness ==
  /\ last.op = "clearValidations"
  /\ \E n \in Forms \ Subtree(last.node) : \E k \in DOMAIN _fields[n] :
       /\ ~_validated[n]
       /\ <<n, k>> \in revisited
       /\ _fields[n][k].validation # ""

\* C24: set(key, v) fires the field's onChange (when declared) once, then the
\* form's onChangeForm (when declared) once, both seeing the value and the
\* message the call leaves, and fires no other callback.
C24_SetCallbacks ==
  last.op = "set" =>
    LET n == last.node
        k == last.key
    IN /\ _fields[n][k].value = last.value
       /\ trace =
            (IF FieldsOptions(options[n])[k].onChange
               THEN <<Event("onChange", n, k, _fields[n])>> ELSE <<>>)
            \o (IF HasOnChangeForm(options[n])
                  THEN <<Event("onChangeForm", n, "", _fields[n])>>
                  ELSE <<>>)

\* C24 witness: set of an accepted value on a validated form whose field
\* carried a message and whose parent has an onChangeForm of its own:
\* onChange, then onChangeForm of the form, both seeing the new value and no
\* message.
C24_Witness ==
  /\ last.op = "set"
  /\ last.old # ""
  /\ parent[last.node] # Undefined
  /\ HasOnChangeForm(options[parent[last.node]])
  /\ Len(trace) = 2
  /\ trace[1].ev = "onChange" /\ trace[2].ev = "onChangeForm"
  /\ \A i \in 1..2 :
       /\ trace[i].node = last.node
       /\ trace[i].seen[last.key] = [value |-> last.value, validation |-> ""]

\* C25: every member of a collection has the parent of the collection (none
\* when the collection has none), and no call changes the parent of an
\* object that existed before it.
C25_MemberParent ==
  /\ \A c \in Colls : \A m \in Range(_forms[c]) : parent[m] = parent[c]
  /\ \A n \in Nodes : before.kind[n] # "free" => parent[n] = before.p[n]

\* C25 witness: add() on a collection without parent next to a collection
\* with one: the new member has no parent, the members of the other have
\* that collection's.
C25_Witness ==
  /\ last.op = "add"
  /\ parent[last.node] = Undefined
  /\ parent[last.value.v] = Undefined
  /\ \E c \in Colls :
       /\ parent[c] # Undefined
       /\ _forms[c] # <<>>
       /\ \A m \in Range(_forms[c]) : parent[m] = parent[c]

\* C26: no call fails, and no object is below itself in the child relation.
C26_AcyclicTotal ==
  /\ ~failed
  /\ \A n \in Forms \cup Colls : ~Cyclic(n) /\ n \notin Descendants(n)

\* The read-only flag the schema alone gives a field.
SchemaReadOnly(n, k) ==
  LET readOnly == FieldsOptions(options[n])[k].readOnly
  IN readOnly = "true" \/ (readOnly = "fn" /\ ReadOnlyFn(n))

\* C27: the form add() / addWithOptions() creates has both own flags false
\* whatever the flags of the collection's parent; a member whose flag is
\* false is read-only in the fields its schema says only, and while a
\* member's own validated flag is false the valid of the collection's parent
\* is false.
C27_NewMemberFlags ==
  /\ last.op \in {"add", "addWithOptions"} =>
       ~_readOnly[last.value.v] /\ ~_validated[last.value.v]
  /\ \A c \in Colls : \A m \in Range(_forms[c]) :
       /\ ~_readOnly[m] =>
            \A k \in Keys(options[m]) :
              IsFieldReadOnly(m, k) = SchemaReadOnly(m, k)
       /\ (parent[c] # Undefined /\ ~Cyclic(parent[c]) /\ ~_validated[m]) =>
            ~FormValid(parent[c])

\* C27 witness: add() on a collection whose parent and members are
\* read-only: the new member is not, a field of it is writable, and the
\* parent's valid is false.
C27_Witness ==
  /\ last.op = "add"
  /\ parent[last.node] # Undefined
  /\ before.r[parent[last.node]]
  /\ before.m[last.node] # <<>>
  /\ \A m \in Range(before.m[last.node]) : _readOnly[m]
  /\ ~_readOnly[last.value.v]
  /\ \E k \in Keys(options[last.value.v]) : ~IsFieldReadOnly(last.value.v, k)
  /\ ~FormValid(parent[last.node])
====
